---- MODULE Spec2Model ----
(***************************************************************************)
(* Model of the fertilizer recommendation engine                           *)
(* (src/src/recommender.py) over its catalog store (src/src/database.py,   *)
(* filled by src/init_database.py), and of the chatbot that collects its   *)
(* arguments from messages (src/src/chatbot.py).                           *)
(*                                                                         *)
(* Spec      calls of the engine's three methods, in any order             *)
(* ChatSpec  a chatbot session: chat and reset calls                       *)
(*                                                                         *)
(* Representation of the program's values                                  *)
(*   text        a sequence of one-character strings, so that upper(),     *)
(*               LOWER() and the substring test are computed               *)
(*   None        the empty sequence <<>>; a present optional v is <<v>>    *)
(*   farm size   whole acres (an integer, possibly zero or negative)       *)
(*   budget      whole KES                                                 *)
(*   price       whole KES per kg (every sample price is a whole number)   *)
(*   NPK content tenths of a percent (the sample data has 1.5 and 2.0)     *)
(*   score       an exact fraction <<numerator, denominator>>, reduced,    *)
(*               denominator > 0                                           *)
(*   money out   hundredths of a KES, the result of round(x, 2)            *)
(***************************************************************************)
EXTENDS Integers, Sequences, FiniteSets, TLC

\* ------------------------------------------------------------------ bounds
\* Farm sizes tried are -1 .. MaxFarm acres.
MaxFarm == 3

\* ------------------------------------------------------------ plain helpers
None == <<>>

Some(v) == <<v>>

\* Python truthiness of an optional number: None and 0 are both false.
Truthy(opt) == opt # None /\ opt[1] # 0

Abs(x) == IF x < 0 THEN -x ELSE x

MinOf(S) == CHOOSE x \in S : \A y \in S : x <= y

\* The sequence with the elements of f, a function on 1..n, each evaluated
\* once (a list the program has built, as opposed to a rule for building it).
List(f) == SubSeq(f, 1, Len(f))

RECURSIVE GCD(_, _)
GCD(a, b) == IF b = 0 THEN a ELSE GCD(b, a % b)

\* ------------------------------------------------------- exact fractions
Frac(n, d) ==
    LET g == GCD(Abs(n), Abs(d))
        s == IF d < 0 THEN -1 ELSE 1
    IN  <<(s * n) \div g, (s * d) \div g>>

FInt(i) == <<i, 1>>

FAdd(a, b) == Frac(a[1] * b[2] + b[1] * a[2], a[2] * b[2])

FSub(a, b) == Frac(a[1] * b[2] - b[1] * a[2], a[2] * b[2])

FMul(a, b) == Frac(a[1] * b[1], a[2] * b[2])

\* a / b for b # 0
FDiv(a, b) == Frac(a[1] * b[2], a[2] * b[1])

FAbs(a) == <<Abs(a[1]), a[2]>>

\* a <= b and a < b, cross-multiplied over the denominators' common factor.
FLe(a, b) ==
    LET g == GCD(a[2], b[2])
    IN  a[1] * (b[2] \div g) <= b[1] * (a[2] \div g)

FLt(a, b) ==
    LET g == GCD(a[2], b[2])
    IN  a[1] * (b[2] \div g) < b[1] * (a[2] \div g)

FMin(a, b) == IF FLe(a, b) THEN a ELSE b

FMax(a, b) == IF FLe(b, a) THEN a ELSE b

\* round(num / den, digits) for den # 0, as the integer round(...) * scale
\* where scale = 10^digits: to the nearest, a tie to the even neighbour.
RoundTo(num, den, scale) ==
    LET f  == Frac(num * scale, den)
        q  == f[1] \div f[2]
        r2 == 2 * (f[1] % f[2])
    IN  IF r2 < f[2] THEN q
        ELSE IF r2 > f[2] THEN q + 1
        ELSE IF q % 2 = 0 THEN q ELSE q + 1

\* ------------------------------------------------------------------- text
Lowers == <<"a", "b", "c", "d", "e", "f", "g", "h", "i", "j", "k", "l", "m",
            "n", "o", "p", "q", "r", "s", "t", "u", "v", "w", "x", "y", "z">>

Uppers == <<"A", "B", "C", "D", "E", "F", "G", "H", "I", "J", "K", "L", "M",
            "N", "O", "P", "Q", "R", "S", "T", "U", "V", "W", "X", "Y", "Z">>

UpperChar(c) ==
    IF \E i \in 1..26 : Lowers[i] = c
    THEN Uppers[CHOOSE i \in 1..26 : Lowers[i] = c]
    ELSE c

LowerChar(c) ==
    IF \E i \in 1..26 : Uppers[i] = c
    THEN Lowers[CHOOSE i \in 1..26 : Uppers[i] = c]
    ELSE c

\* str.upper()
Upper(s) == List([i \in 1..Len(s) |-> UpperChar(s[i])])

\* SQL LOWER()
Lower(s) == List([i \in 1..Len(s) |-> LowerChar(s[i])])

\* Python's `sub in s`
Contains(sub, s) ==
    \E i \in 0..(Len(s) - Len(sub)) : SubSeq(s, i + 1, i + Len(sub)) = sub

\* ------------------------------------------------------------ sample data
Crop(name, n, p, k) ==
    [crop_name |-> name, nitrogen_requirement |-> n,
     phosphorus_requirement |-> p, potassium_requirement |-> k]

\* The crops table after insert_sample_data.
SampleCrops ==
    << Crop(<<"M", "a", "i", "z", "e">>, 120, 60, 60),
       Crop(<<"B", "e", "a", "n", "s">>, 30, 40, 40),
       Crop(<<"P", "o", "t", "a", "t", "o", "e", "s">>, 150, 80, 180),
       Crop(<<"T", "o", "m", "a", "t", "o", "e", "s">>, 140, 60, 180),
       Crop(<<"W", "h", "e", "a", "t">>, 100, 50, 50) >>

\* The soils table after insert_sample_data (only the key is read here).
SampleSoils ==
    << [soil_type |-> <<"C", "l", "a", "y">>],
       [soil_type |-> <<"L", "o", "a", "m">>],
       [soil_type |-> <<"S", "a", "n", "d", "y">>] >>

Fert(name, n, p, k, price, notes) ==
    [product_name |-> name, nitrogen_content |-> n, phosphorus_content |-> p,
     potassium_content |-> k, price_per_kg |-> price, application_notes |-> notes]

\* The fertilizers table after insert_sample_data, in insertion order.
SampleFertilizers ==
    << Fert(<<"D", "A", "P", " ", "1", "8", ":", "4", "6", ":", "0">>,
            180, 460, 0, 120, "basal"),
       Fert(<<"C", "A", "N", " ", "2", "6", ":", "0", ":", "0">>,
            260, 0, 0, 90, "top dressing"),
       Fert(<<"N", "P", "K", " ", "1", "7", ":", "1", "7", ":", "1", "7">>,
            170, 170, 170, 110, "balanced"),
       Fert(<<"N", "P", "K", " ", "2", "3", ":", "2", "3", ":", "0">>,
            230, 230, 0, 115, "cereals"),
       Fert(<<"U", "r", "e", "a", " ", "4", "6", ":", "0", ":", "0">>,
            460, 0, 0, 85, "high nitrogen"),
       Fert(<<"T", "S", "P", " ", "0", ":", "4", "6", ":", "0">>,
            0, 460, 0, 100, "phosphorus"),
       Fert(<<"M", "a", "n", "u", "r", "e">>, 15, 10, 15, 20, "organic"),
       Fert(<<"C", "o", "m", "p", "o", "s", "t">>, 20, 15, 20, 15, "on-farm") >>

\* The row sets of the fertilizers table the model starts from: the sample
\* table and tables holding only some of its rows (none, one, the three
\* cheapest mineral products, ...).
CatalogShapes ==
    { {}, {5}, {5, 2}, {7, 8}, {2, 5, 6}, {1, 2, 3, 4, 5, 6}, 1..8 }

TableOf(shape) ==
    LET F(i) == i \in shape
        idx  == SelectSeq([i \in 1..Len(SampleFertilizers) |-> i], F)
    IN  List([j \in 1..Len(idx) |-> SampleFertilizers[idx[j]]])

\* ----------------------------------------------------------------- state
VARIABLES
    fertilizers,     \* the fertilizers table, rows in insertion order
    standard_rates,  \* FertilizerRecommender.standard_rates, in dict order
    pc,              \* "idle", or "done" once a call has ended
    call,            \* the call that ended last: [op, args]
    rec,             \* what it returned, or [exception |-> name]
    frame,           \* the call's locals when it ended
    seen,            \* history: a watched call that ended earlier, or None
    user_data        \* FertilizerChatbot.user_data

vars == <<fertilizers, standard_rates, pc, call, rec, frame, seen, user_data>>

\* ------------------------------------------------------- catalog accessor
\* SELECT * FROM crops WHERE LOWER(crop_name) = LOWER(?); fetchone()
get_crop_by_name(crop_name) ==
    LET hit == {i \in 1..Len(SampleCrops) :
                  Lower(SampleCrops[i].crop_name) = Lower(crop_name)}
    IN  IF hit = {} THEN None ELSE Some(SampleCrops[MinOf(hit)])

\* SELECT * FROM soils WHERE LOWER(soil_type) = LOWER(?); fetchone()
get_soil_by_type(soil_type) ==
    LET hit == {i \in 1..Len(SampleSoils) :
                  Lower(SampleSoils[i].soil_type) = Lower(soil_type)}
    IN  IF hit = {} THEN None ELSE Some(SampleSoils[MinOf(hit)])

\* Where row i lands in an ascending stable order by price: after every
\* cheaper row and after the earlier rows of the same price.
PriceRank(seq, i) ==
    1 + Cardinality({j \in 1..Len(seq) :
                       \/ seq[j].price_per_kg < seq[i].price_per_kg
                       \/ (seq[j].price_per_kg = seq[i].price_per_kg /\ j < i)})

OrderByPrice(seq) ==
    List([p \in 1..Len(seq) |-> seq[CHOOSE i \in 1..Len(seq) : PriceRank(seq, i) = p]])

\* SELECT * FROM fertilizers ORDER BY price_per_kg (no two rows of the
\* tables modelled share a price, so the order is determined).
get_all_fertilizers(table) == OrderByPrice(table)

\* ------------------------------------------------------------ rate resolver
StandardRates ==
    << [key |-> <<"D", "A", "P">>, rate |-> 50],
       [key |-> <<"C", "A", "N">>, rate |-> 50],
       [key |-> <<"N", "P", "K">>, rate |-> 50],
       [key |-> <<"U", "r", "e", "a">>, rate |-> 50],
       [key |-> <<"T", "S", "P">>, rate |-> 50],
       [key |-> <<"M", "a", "n", "u", "r", "e">>, rate |-> 2000],
       [key |-> <<"C", "o", "m", "p", "o", "s", "t">>, rate |-> 2000] >>

DefaultRate == 50

\* The places of the table's keys found in the name, compared in upper case.
RateHits(rates, fertilizer_name) ==
    {i \in 1..Len(rates) : Contains(Upper(rates[i].key), Upper(fertilizer_name))}

\* A scan that lets a later keyword overwrite an earlier one (no break).
get_fertilizer_rate_last(rates, fertilizer_name, farm_size_acres) ==
    LET hits == RateHits(rates, fertilizer_name)
        rate_per_acre ==
            IF hits = {} THEN DefaultRate ELSE rates[-MinOf({-i : i \in hits})].rate
    IN  rate_per_acre * farm_size_acres

get_fertilizer_rate(rates, fertilizer_name, farm_size_acres) ==
    LET hits == RateHits(rates, fertilizer_name)
        rate_per_acre ==
            IF hits = {} THEN DefaultRate ELSE rates[MinOf(hits)].rate
    IN  rate_per_acre * farm_size_acres

\* ------------------------------------------------------ nutrient match scorer
CropTotal(crop) ==
    crop.nitrogen_requirement + crop.phosphorus_requirement
        + crop.potassium_requirement

\* Lines 42-44 divide by the crop's total requirement.
ScoreRaises(crop) == CropTotal(crop) = 0

\* Line 46.
TotalNpk(fertilizer) ==
    fertilizer.nitrogen_content + fertilizer.phosphorus_content
        + fertilizer.potassium_content

\* The fertilizer's share of each nutrient taken as its percentage by weight
\* (content / 100, contents being in tenths of a percent) and not as its
\* share of the three contents.
ratio_diff_percent(crop, fertilizer) ==
    LET S == CropTotal(crop)
        D(c, f) == FAbs(FSub(Frac(c, S), Frac(f, 1000)))
    IN  FAdd(FAdd(D(crop.nitrogen_requirement, fertilizer.nitrogen_content),
                  D(crop.phosphorus_requirement, fertilizer.phosphorus_content)),
             D(crop.potassium_requirement, fertilizer.potassium_content))

\* Lines 42-44 and 48-52, for a crop total and a total_npk that are not 0.
ratio_diff(crop, fertilizer) ==
    LET S == CropTotal(crop)
        total_npk == TotalNpk(fertilizer)
        D(c, f) == FAbs(FSub(Frac(c, S), Frac(f, total_npk)))
    IN  FAdd(FAdd(D(crop.nitrogen_requirement, fertilizer.nitrogen_content),
                  D(crop.phosphorus_requirement, fertilizer.phosphorus_content)),
             D(crop.potassium_requirement, fertilizer.potassium_content))

\* ratio_diff * 30 of lines 46-53, or 0 when total_npk is not positive.
npk_penalty(crop, fertilizer) ==
    IF TotalNpk(fertilizer) > 0
    THEN FMul(ratio_diff(crop, fertilizer), FInt(30))
    ELSE FInt(0)

\* What lines 57-61 subtract: min(price_penalty, 40), or 0 when the budget
\* is None or 0, or the price is within it.
budget_deduction(fertilizer, budget_per_kg) ==
    LET price == FInt(fertilizer.price_per_kg)
        bpk   == budget_per_kg[1]
        price_diff    == FSub(price, bpk)
        price_penalty == FMul(FDiv(price_diff, bpk), FInt(40))
    IN  IF budget_per_kg # None /\ bpk[1] # 0 /\ FLt(bpk, price)
        THEN FMin(price_penalty, FInt(40))
        ELSE FInt(0)

\* The value score_fertilizer returns for a crop with a non-zero total.
score_fertilizer(crop, fertilizer, budget_per_kg) ==
    LET afterNpk    == FSub(FInt(100), FMin(npk_penalty(crop, fertilizer), FInt(60)))
        afterBudget == FSub(afterNpk, budget_deduction(fertilizer, budget_per_kg))
    IN  FMax(afterBudget, FInt(0))

\* score_fertilizer's locals when it returns, for a crop with a non-zero
\* total: ratio_diff if line 52 ran, and the values of score in turn: at
\* line 39, after line 54, after line 61.
ScoreLocals(crop, fertilizer, budget_per_kg) ==
    LET afterNpk    == FSub(FInt(100), FMin(npk_penalty(crop, fertilizer), FInt(60)))
        afterBudget == FSub(afterNpk, budget_deduction(fertilizer, budget_per_kg))
    IN  [ratio_diff  |-> IF TotalNpk(fertilizer) > 0
                         THEN Some(ratio_diff(crop, fertilizer)) ELSE None,
         score_steps |-> <<FInt(100), afterNpk, afterBudget>>]

\* -------------------------------------------------- recommendation assembler
\* Lines 81-84.
BudgetPerKg(budget_total, farm_size_acres) ==
    IF Truthy(budget_total) /\ farm_size_acres # 0
    THEN Some(Frac(budget_total[1], 50 * farm_size_acres))
    ELSE None

\* One pass of the loop of lines 88-102, for farm_size_acres # 0.
Candidate(rates, crop, fert, farm_size_acres, budget_per_kg) ==
    LET application_rate == get_fertilizer_rate(rates, fert.product_name, farm_size_acres)
        total_cost       == application_rate * fert.price_per_kg
    IN  [fertilizer          |-> fert,
         score               |-> score_fertilizer(crop, fert, budget_per_kg),
         application_rate_kg |-> application_rate,
         total_cost          |-> RoundTo(total_cost, 1, 100),
         cost_per_acre       |-> RoundTo(total_cost, farm_size_acres, 100)]

\* The same for a sort that turns elements of equal score round.
ScoreRank_unstable(seq, i) ==
    1 + Cardinality({j \in 1..Len(seq) :
                       \/ FLt(seq[i].score, seq[j].score)
                       \/ (seq[j].score = seq[i].score /\ j > i)})

\* Where element i lands in a stable descending sort by score: after every
\* element of higher score and after the earlier elements of equal score.
ScoreRank(seq, i) ==
    1 + Cardinality({j \in 1..Len(seq) :
                       \/ FLt(seq[i].score, seq[j].score)
                       \/ (seq[j].score = seq[i].score /\ j < i)})

\* The sort without reverse=True: ascending.
SortByScore_ascending(seq) ==
    List([p \in 1..Len(seq) |->
            seq[CHOOSE i \in 1..Len(seq) : ScoreRank(seq, i) = Len(seq) + 1 - p]])

\* list.sort(key=score, reverse=True): descending and stable.
SortByScore(seq) ==
    List([p \in 1..Len(seq) |-> seq[CHOOSE i \in 1..Len(seq) : ScoreRank(seq, i) = p]])

\* Where element i lands in a stable ascending sort by total cost.
CostRank(seq, i) ==
    1 + Cardinality({j \in 1..Len(seq) :
                       \/ seq[j].total_cost < seq[i].total_cost
                       \/ (seq[j].total_cost = seq[i].total_cost /\ j < i)})

\* The fallback without its sort: the list stays in score order.
SortByCost_unsorted(seq) == seq

\* list.sort(key=total_cost): ascending and stable.
SortByCost(seq) ==
    List([p \in 1..Len(seq) |-> seq[CHOOSE i \in 1..Len(seq) : CostRank(seq, i) = p]])

\* Python's seq[a:b] for 0 <= a <= b.
Slice(seq, a, b) ==
    IF a >= Len(seq) THEN <<>>
    ELSE SubSeq(seq, a + 1, IF b < Len(seq) THEN b ELSE Len(seq))

\* total_cost <= budget_total, the cost in hundredths and the budget in KES.
CostWithin(cand, budget_total) == cand.total_cost <= 100 * budget_total[1]

\* The filter with its comparison turned round.
BudgetFilter_reversed(scored, budget_total) ==
    LET Keep(f) == f.total_cost >= 100 * budget_total[1]
    IN  IF Truthy(budget_total) THEN SelectSeq(scored, Keep) ELSE scored

\* Lines 108-110.
BudgetFilter(scored, budget_total) ==
    LET Keep(f) == CostWithin(f, budget_total)
    IN  IF Truthy(budget_total) THEN SelectSeq(scored, Keep) ELSE scored

\* Line 121 without its else branch.
Alternatives_noFallback(affordable, scored) == Slice(affordable, 1, 4)

\* Line 121.
Alternatives(affordable, scored) ==
    IF Len(affordable) > 1 THEN Slice(affordable, 1, 4) ELSE Slice(scored, 1, 4)

\* Line 150 with < for <=.
WithinBudget_strict(top_choice, budget_total) ==
    IF Truthy(budget_total)
    THEN top_choice.total_cost < 100 * budget_total[1]
    ELSE TRUE

\* Line 150.
WithinBudget(top_choice, budget_total) ==
    IF Truthy(budget_total) THEN CostWithin(top_choice, budget_total) ELSE TRUE

NpkOf(fert) ==
    <<fert.nitrogen_content, fert.phosphorus_content, fert.potassium_content>>

\* Lines 129-139; quantity_bags in tenths of a bag, score in tenths.
Primary(top_choice) ==
    [fertilizer_name   |-> top_choice.fertilizer.product_name,
     npk               |-> NpkOf(top_choice.fertilizer),
     quantity_kg       |-> top_choice.application_rate_kg,
     quantity_bags     |-> RoundTo(top_choice.application_rate_kg, 50, 10),
     total_cost        |-> top_choice.total_cost,
     cost_per_acre     |-> top_choice.cost_per_acre,
     price_per_kg      |-> top_choice.fertilizer.price_per_kg,
     score             |-> RoundTo(top_choice.score[1], top_choice.score[2], 10),
     application_notes |-> top_choice.fertilizer.application_notes]

\* Lines 141-147.
Alternative(alt) ==
    [fertilizer_name |-> alt.fertilizer.product_name,
     npk             |-> NpkOf(alt.fertilizer),
     quantity_kg     |-> alt.application_rate_kg,
     total_cost      |-> alt.total_cost,
     cost_per_acre   |-> alt.cost_per_acre]

\* A call's locals before anything ran: those of get_recommendation, and
\* score_fertilizer's ratio_diff and the values its local score took.
EmptyFrame ==
    [db_calls |-> <<>>, budget_per_kg |-> None, n_scored |-> 0,
     ranked |-> <<>>, filtered |-> <<>>, scored_fertilizers |-> <<>>,
     affordable |-> <<>>, alternatives |-> <<>>,
     ratio_diff |-> None, score_steps |-> <<>>]

Raised(name) == [exception |-> name]

\* A not-found result that also echoes the name under another key.
ErrorResult_partial(kind, name) ==
    [error |-> <<kind, name, "not found">>, crop |-> name]

\* Lines 73 and 75: {"error": f"{kind} {name} not found"}.
ErrorResult(kind, name) == [error |-> <<kind, name, "not found">>]

\* Lines 86-102 without the sort of line 105: the candidates in the order
\* of the listing.
Rank_unsorted(rates, crop, all_fertilizers, farm_size_acres, budget_per_kg) ==
    List([i \in 1..Len(all_fertilizers) |->
            Candidate(rates, crop, all_fertilizers[i], farm_size_acres, budget_per_kg)])

\* Lines 86-105: the candidates, scored and sorted by score.
Rank(rates, crop, all_fertilizers, farm_size_acres, budget_per_kg) ==
    SortByScore(List([i \in 1..Len(all_fertilizers) |->
                        Candidate(rates, crop, all_fertilizers[i], farm_size_acres,
                                  budget_per_kg)]))

\* Lines 107-121 for a list that is not empty: the locals they set.
\*   ranked              scored_fertilizers after the sort of line 105
\*   filtered            affordable after lines 108-110
\*   scored_fertilizers  the list when the function ends (line 114 sorts it
\*                       in place)
\*   affordable          the working set after lines 112-115
Choose(ranked, budget_total) ==
    LET filtered == BudgetFilter(ranked, budget_total)
        scored_fertilizers == IF filtered = <<>> THEN SortByCost(ranked) ELSE ranked
        affordable ==
            IF filtered = <<>> THEN Slice(scored_fertilizers, 0, 3) ELSE filtered
    IN  [ranked             |-> ranked,
         filtered           |-> filtered,
         scored_fertilizers |-> scored_fertilizers,
         affordable         |-> affordable,
         alternatives       |-> Alternatives(affordable, scored_fertilizers)]

\* Lines 118 and 124-151: the result built from the locals.
Response(crop, soil, farm_size_acres, budget_total, chosen) ==
    [crop                   |-> crop.crop_name,
     soil                   |-> soil.soil_type,
     farm_size_acres        |-> farm_size_acres,
     budget_total           |-> budget_total,
     primary_recommendation |-> Primary(chosen.affordable[1]),
     alternatives           |->
         List([i \in 1..Len(chosen.alternatives) |->
                 Alternative(chosen.alternatives[i])]),
     within_budget          |-> WithinBudget(chosen.affordable[1], budget_total)]

\* The catalog methods called: the two lookups, then the listing.
Lookups == <<"get_crop_by_name", "get_soil_by_type">>

\* The locals once the fertilizers are listed and n_scored calls of
\* score_fertilizer have begun.
Listed(budget_per_kg, n_scored) ==
    [EmptyFrame EXCEPT !.db_calls = Append(Lookups, "get_all_fertilizers"),
                       !.budget_per_kg = budget_per_kg,
                       !.n_scored = n_scored]

\* The locals when the function returns a recommendation.
FullFrame(budget_per_kg, chosen) ==
    [Listed(budget_per_kg, Len(chosen.ranked)) EXCEPT
        !.ranked = chosen.ranked,
        !.filtered = chosen.filtered,
        !.scored_fertilizers = chosen.scored_fertilizers,
        !.affordable = chosen.affordable,
        !.alternatives = chosen.alternatives]

\* Lines 77-151, for a crop and a soil that were found.
Recommend(table, rates, crop, soil, farm_size_acres, budget_total) ==
    LET all_fertilizers == get_all_fertilizers(table)
        budget_per_kg == BudgetPerKg(budget_total, farm_size_acres)
    IN  IF all_fertilizers # <<>> /\ (ScoreRaises(crop) \/ farm_size_acres = 0) THEN
            \* line 42 (a zero crop total) or line 101 (a zero farm size),
            \* both in the first pass of the loop
            [rec |-> Raised("ZeroDivisionError"), frame |-> Listed(budget_per_kg, 1)]
        ELSE IF all_fertilizers = <<>> THEN
            \* line 118: affordable[0] of an empty list
            [rec |-> Raised("IndexError"), frame |-> Listed(budget_per_kg, 0)]
        ELSE
            CHOOSE r \in
                { [rec   |-> Response(crop, soil, farm_size_acres, budget_total, chosen),
                   frame |-> FullFrame(budget_per_kg, chosen)] :
                  chosen \in
                    { Choose(ranked, budget_total) :
                      ranked \in { Rank(rates, crop, all_fertilizers, farm_size_acres,
                                        budget_per_kg) } } } : TRUE

\* get_recommendation as a whole: [rec |-> what it returns or raises,
\* frame |-> its locals at that point].
get_recommendation(table, rates, crop_name, soil_type, farm_size_acres, budget_total) ==
    LET crop == get_crop_by_name(crop_name)
        soil == get_soil_by_type(soil_type)
    IN  IF crop = None THEN
            [rec   |-> ErrorResult("Crop", crop_name),
             frame |-> [EmptyFrame EXCEPT !.db_calls = Lookups]]
        ELSE IF soil = None THEN
            [rec   |-> ErrorResult("Soil", soil_type),
             frame |-> [EmptyFrame EXCEPT !.db_calls = Lookups]]
        ELSE Recommend(table, rates, crop[1], soil[1], farm_size_acres, budget_total)

\* ----------------------------------------------------------------- inputs
Maize == <<"M", "a", "i", "z", "e">>

Loam == <<"L", "o", "a", "m">>

\* Crop names asked for: as stored, in another case, and one not stored.
CropNames ==
    { Maize, <<"m", "a", "i", "z", "e">>, <<"B", "e", "a", "n", "s">>,
      <<"P", "O", "T", "A", "T", "O", "E", "S">>, <<"R", "i", "c", "e">> }

\* Soil types asked for: as stored, in another case, and one not stored.
SoilTypes == { Loam, <<"C", "L", "A", "Y">>, <<"P", "e", "a", "t">> }

\* Farm sizes: negative, zero and positive.
FarmSizes == (-1)..MaxFarm

\* Budgets: absent, negative, zero, below every cost, on a cost, above all.
Budgets ==
    { None } \cup
    { Some(b) : b \in { -5000, 0, 1000, 4250, 4500, 8500, 10000, 12000, 100000 } }

\* Product names for the rate resolver: the sample names and names holding
\* no keyword, a keyword in another case, a keyword inside a word, or two
\* keywords of different rates.
ProductNames ==
    { SampleFertilizers[i].product_name : i \in 1..Len(SampleFertilizers) } \cup
    { <<"O", "r", "g", "a", "n", "i", "c">>,
      <<"d", "a", "p">>,
      <<"S", "c", "a", "n">>,
      <<"c", "o", "m", "p", "o", "s", "t", " ", "t", "e", "a">>,
      <<"M", "a", "n", "u", "r", "e", " ", "D", "A", "P", " ", "m", "i", "x">>,
      <<"U", "r", "e", "a", "-", "C", "o", "m", "p", "o", "s", "t">>,
      <<"M", "a", "n", "u", "r", "e", " ", "C", "o", "m", "p", "o", "s", "t">> }

\* Crops scored directly: the sample crops, one with no requirement, and
\* for every sample fertilizer a crop that requires the three nutrients in
\* the proportions of its contents (18:46:0 gives 9, 23, 0).
Fallow == Crop(<<"F", "a", "l", "l", "o", "w">>, 0, 0, 0)

MatchedCrop(fertilizer) ==
    LET n == fertilizer.nitrogen_content
        p == fertilizer.phosphorus_content
        k == fertilizer.potassium_content
        g == GCD(GCD(n, p), k)
    IN  Crop(<<"m", "a", "t", "c", "h">>, n \div g, p \div g, k \div g)

ScoredCrops ==
    { SampleCrops[i] : i \in 1..Len(SampleCrops) } \cup { Fallow } \cup
    { MatchedCrop(SampleFertilizers[i]) : i \in 1..Len(SampleFertilizers) }

\* Fertilizers scored directly: the sample rows and one with no NPK content.
Lime == Fert(<<"L", "i", "m", "e">>, 0, 0, 0, 10, "liming")

ScoredFertilizers ==
    { SampleFertilizers[i] : i \in 1..Len(SampleFertilizers) } \cup { Lime }

\* budget_per_kg values passed directly: None, zero, negative, positive.
BudgetsPerKg ==
    { None, Some(FInt(0)), Some(FInt(-100)), Some(FInt(20)), Some(Frac(85, 3)),
      Some(FInt(100)), Some(FInt(200)) }

\* ---------------------------------------------------------------- history
\* The get_recommendation calls whose first result is kept for comparison
\* with later ones: the call of the module's own test run, and a call whose
\* budget nothing meets (the one path that sorts the candidate list twice).
Watched ==
    { <<Maize, Loam, 2, Some(10000)>>, <<Maize, Loam, 2, Some(1000)>> }

\* seen after a call has ended: the first watched call with its result and
\* the catalog and rate table it ran on, then whether any other call has
\* ended since.
Seen(op, args, result) ==
    IF seen = None THEN
        IF op = "get_recommendation" /\ args \in Watched
        THEN Some([args |-> args, rec |-> result, fertilizers |-> fertilizers,
                   standard_rates |-> standard_rates, between |-> FALSE])
        ELSE None
    ELSE IF op = "get_recommendation" /\ args = seen[1].args THEN seen
    ELSE Some([seen[1] EXCEPT !.between = TRUE])

\* ---------------------------------------------------------------- actions
\* The table after the statements a call runs on it, if they were to
\* rewrite its rows in the order of the listing.
TableAfter_reordered(table) == get_all_fertilizers(table)

\* The table after the statements a call runs on it: SELECTs only, on a
\* connection that is closed without a commit.
TableAfter(table) == table

NoCall == [op |-> "none", args |-> <<>>]

\* user_data as the chatbot's constructor and reset() set it.
NoUserData == [crop |-> None, soil |-> None, acres |-> None, budget |-> None]

NoResult == [idle |-> TRUE]

Init ==
    /\ fertilizers \in { TableOf(shape) : shape \in CatalogShapes }
    /\ standard_rates = StandardRates
    /\ pc = "idle"
    /\ call = NoCall
    /\ rec = NoResult
    /\ frame = EmptyFrame
    /\ seen = None
    /\ user_data = NoUserData

GetRecommendation ==
    /\ pc = "idle"
    /\ \E crop_name \in CropNames, soil_type \in SoilTypes,
          farm_size_acres \in FarmSizes, budget_total \in Budgets :
          \E r \in { get_recommendation(fertilizers, standard_rates, crop_name,
                                         soil_type, farm_size_acres, budget_total) } :
              /\ call' = [op   |-> "get_recommendation",
                          args |-> <<crop_name, soil_type, farm_size_acres,
                                     budget_total>>]
              /\ rec' = r.rec
              /\ frame' = r.frame
              /\ seen' = Seen("get_recommendation",
                              <<crop_name, soil_type, farm_size_acres, budget_total>>,
                              r.rec)
    /\ pc' = "done"
    /\ fertilizers' = TableAfter(fertilizers)
    /\ UNCHANGED <<standard_rates, user_data>>

GetFertilizerRate ==
    /\ pc = "idle"
    /\ \E fertilizer_name \in ProductNames, farm_size_acres \in FarmSizes :
          /\ call' = [op   |-> "get_fertilizer_rate",
                      args |-> <<fertilizer_name, farm_size_acres>>]
          /\ rec' = [value |-> get_fertilizer_rate(standard_rates, fertilizer_name,
                                                   farm_size_acres)]
          /\ seen' = Seen("get_fertilizer_rate", <<fertilizer_name, farm_size_acres>>,
                          None)
    /\ pc' = "done"
    /\ frame' = EmptyFrame
    /\ UNCHANGED <<fertilizers, standard_rates, user_data>>

ScoreFertilizer ==
    /\ pc = "idle"
    /\ \E crop \in ScoredCrops, fertilizer \in ScoredFertilizers,
          budget_per_kg \in BudgetsPerKg :
          /\ call' = [op   |-> "score_fertilizer",
                      args |-> <<crop, fertilizer, budget_per_kg>>]
          /\ rec' = IF ScoreRaises(crop)
                    THEN Raised("ZeroDivisionError")
                    ELSE [value |-> score_fertilizer(crop, fertilizer, budget_per_kg)]
          /\ frame' = IF ScoreRaises(crop)
                      THEN EmptyFrame
                      ELSE [EmptyFrame EXCEPT
                              !.ratio_diff =
                                  ScoreLocals(crop, fertilizer, budget_per_kg).ratio_diff,
                              !.score_steps =
                                  ScoreLocals(crop, fertilizer, budget_per_kg).score_steps]
          /\ seen' = Seen("score_fertilizer", <<crop, fertilizer, budget_per_kg>>, None)
    /\ pc' = "done"
    /\ UNCHANGED <<fertilizers, standard_rates, user_data>>

\* The caller takes the result; the call's locals are gone.
Return ==
    /\ pc = "done"
    /\ pc' = "idle"
    /\ call' = NoCall
    /\ rec' = NoResult
    /\ frame' = EmptyFrame
    /\ UNCHANGED <<fertilizers, standard_rates, seen, user_data>>

Next == GetRecommendation \/ GetFertilizerRate \/ ScoreFertilizer \/ Return

Spec == Init /\ [][Next]_vars

\* ------------------------------------------------------------------ chatbot
\* self.crops and self.soils: the names in the rows of SELECT * FROM crops
\* and SELECT * FROM soils, in the order of insertion.
crops == List([i \in 1..Len(SampleCrops) |-> SampleCrops[i].crop_name])

soils == List([i \in 1..Len(SampleSoils) |-> SampleSoils[i].soil_type])

\* str.split(): the words between runs of blanks.
RECURSIVE Split(_)
Split(s) ==
    IF s = <<>> THEN <<>>
    ELSE IF Head(s) = " " THEN Split(Tail(s))
    ELSE LET ends == {i \in 1..Len(s) : s[i] = " "}
             n    == IF ends = {} THEN Len(s) ELSE MinOf(ends) - 1
         IN  <<SubSeq(s, 1, n)>> \o Split(SubSeq(s, n + 1, Len(s)))

\* str.replace(",", "")
StripCommas(word) ==
    LET NotComma(c) == c # ","
    IN  SelectSeq(word, NotComma)

Digits == <<"0", "1", "2", "3", "4", "5", "6", "7", "8", "9">>

IsDigit(c) == \E d \in 1..10 : Digits[d] = c

DigitValue(c) == (CHOOSE d \in 1..10 : Digits[d] = c) - 1

RECURSIVE NumberOf(_)
NumberOf(digits) ==
    IF digits = <<>> THEN 0
    ELSE 10 * NumberOf(SubSeq(digits, 1, Len(digits) - 1))
            + DigitValue(digits[Len(digits)])

\* float(word) for the words of the messages modelled: Some(value) for a
\* run of digits, None where float raises ValueError. (float also reads
\* signs, decimal points, exponents, "inf" and "nan": no message modelled
\* holds such a word before a unit.)
ParseFloat(word) ==
    IF word # <<>> /\ \A i \in 1..Len(word) : IsDigit(word[i])
    THEN Some(NumberOf(word))
    ELSE None

\* Lines 73-76 and 79-82: the first name of the list that occurs in the
\* lower-cased message, or the value held when none does.
FirstNamed(names, message_lower, held) ==
    LET hits == {i \in 1..Len(names) : Contains(Lower(names[i]), message_lower)}
    IN  IF hits = {} THEN held ELSE Some(names[MinOf(hits)])

AcreWords == { <<"a", "c", "r", "e">>, <<"a", "c", "r", "e", "s">>, <<"a", "c">> }

BudgetWords ==
    { <<"k", "e", "s">>,
      <<"k", "s", "h">>,
      <<"s", "h", "i", "l", "l", "i", "n", "g", "s">>,
      <<"b", "o", "b">> }

\* The loops of lines 86-91 and 94-101 from word i on (i counted from 1):
\* each unit word that is not the first word assigns the number read from
\* the word before it, if float accepts that word; a later one overwrites.
RECURSIVE NumberBefore(_, _, _, _, _)
NumberBefore(words, units, strip, i, held) ==
    IF i > Len(words) THEN held
    ELSE LET before == IF strip THEN StripCommas(words[i - 1]) ELSE words[i - 1]
             read   == IF words[i] \in units /\ i > 1 THEN ParseFloat(before) ELSE None
         IN  NumberBefore(words, units, strip, i + 1,
                          IF read # None THEN read ELSE held)

\* extract_info: user_data after the message.
extract_info(data, user_message) ==
    LET message_lower == Lower(user_message)
        words == Split(message_lower)
    IN  [crop   |-> FirstNamed(crops, message_lower, data.crop),
         soil   |-> FirstNamed(soils, message_lower, data.soil),
         acres  |-> NumberBefore(words, AcreWords, FALSE, 1, data.acres),
         budget |-> NumberBefore(words, BudgetWords, TRUE, 1, data.budget)]

\* check_ready_for_recommendation
check_ready_for_recommendation(data) ==
    data.crop # None /\ data.soil # None /\ data.acres # None

\* Lines 118-144: the reply built from the engine's result. The text is
\* kept as its parts: the error, or the BEST CHOICE block, the budget line
\* ("fits", "exceeds" or none) and the CHEAPER OPTION block if there is one.
RecommendationText(result, budget) ==
    IF "error" \in DOMAIN result THEN
        [via |-> "engine", sorry |-> result.error]
    ELSE
        [via            |-> "engine",
         best_choice    |-> result.primary_recommendation,
         budget_line    |-> IF ~Truthy(budget) THEN "none"
                            ELSE IF result.within_budget THEN "fits" ELSE "exceeds",
         cheaper_option |-> IF Truthy(budget) /\ ~result.within_budget
                                /\ result.alternatives # <<>>
                            THEN Some(result.alternatives[1])
                            ELSE None]

\* What generate_content may do: answer, or raise (caught on line 172).
ModelOutcomes == { "answer", "raised" }

\* Lines 157-173: the reply when the language model is asked.
ModelText(outcome) ==
    [via  |-> "model",
     text |-> IF outcome = "answer" THEN "response.text" ELSE "Sorry, I had trouble"]

\* Messages: the four of the module's test conversation, and messages with
\* a zero farm size, a number with a comma, a unit as first word and after
\* a word that is no number, and two fields more in one message.
Messages ==
    { <<"H", "e", "l", "l", "o", ",", " ", "I", " ", "n", "e", "e", "d", " ", "h", "e", "l", "p", " ", "w", "i", "t", "h", " ", "f", "e", "r", "t", "i", "l", "i", "z", "e", "r">>,
      <<"I", " ", "w", "a", "n", "t", " ", "t", "o", " ", "p", "l", "a", "n", "t", " ", "m", "a", "i", "z", "e">>,
      <<"I", " ", "h", "a", "v", "e", " ", "l", "o", "a", "m", " ", "s", "o", "i", "l", " ", "a", "n", "d", " ", "2", " ", "a", "c", "r", "e", "s">>,
      <<"M", "y", " ", "b", "u", "d", "g", "e", "t", " ", "i", "s", " ", "8", "0", "0", "0", " ", "s", "h", "i", "l", "l", "i", "n", "g", "s">>,
      <<"b", "e", "a", "n", "s", " ", "o", "n", " ", "C", "l", "a", "y", ",", " ", "0", " ", "a", "c", "r", "e", "s">>,
      <<"1", ",", "0", "0", "0", " ", "k", "e", "s">>,
      <<"a", "c", "r", "e", "s", " ", "a", "n", "d", " ", "a", "c", "r", "e", "s", " ", "o", "f", " ", "w", "h", "e", "a", "t">>,
      <<"1", "0", "0", "0", "0", " ", "b", "o", "b", " ", "f", "o", "r", " ", "2", " ", "a", "c">>,
      <<"0", " ", "k", "s", "h">> }

\* chat(user_message)
Chat ==
    /\ pc = "idle"
    /\ \E user_message \in Messages, outcome \in ModelOutcomes :
          \E data \in { extract_info(user_data, user_message) } :
              /\ user_data' = data
              /\ call' = [op |-> "chat", args |-> <<user_message>>, held |-> user_data]
              /\ IF check_ready_for_recommendation(data) THEN
                     \E r \in { get_recommendation(fertilizers, standard_rates,
                                                    data.crop[1], data.soil[1],
                                                    data.acres[1], data.budget) } :
                         /\ rec' = IF "exception" \in DOMAIN r.rec
                                   THEN r.rec
                                   ELSE RecommendationText(r.rec, data.budget)
                         /\ frame' = r.frame
                         /\ seen' = Seen("get_recommendation",
                                         <<data.crop[1], data.soil[1], data.acres[1],
                                           data.budget>>, r.rec)
                 ELSE
                     /\ rec' = ModelText(outcome)
                     /\ frame' = EmptyFrame
                     /\ seen' = Seen("chat", <<user_message>>, None)
    /\ pc' = "done"
    /\ fertilizers' = TableAfter(fertilizers)
    /\ UNCHANGED standard_rates

\* reset()
Reset ==
    /\ pc = "idle"
    /\ user_data' = NoUserData
    /\ call' = [op |-> "reset", args |-> <<>>, held |-> user_data]
    /\ rec' = [value |-> None]
    /\ frame' = EmptyFrame
    /\ seen' = Seen("reset", <<>>, None)
    /\ pc' = "done"
    /\ UNCHANGED <<fertilizers, standard_rates>>

ChatNext == Chat \/ Reset \/ Return

\* A chatbot session: chat and reset calls on one FertilizerChatbot.
ChatSpec == Init /\ [][ChatNext]_vars

\* ----------------------------------------------------------------- claims
\* What the call that just ended was, and how it ended.
Recommended == pc = "done" /\ call.op = "get_recommendation"

Scored == pc = "done" /\ call.op = "score_fertilizer"

Rated == pc = "done" /\ call.op = "get_fertilizer_rate"

Succeeded == Recommended /\ "primary_recommendation" \in DOMAIN rec

Failed == pc = "done" /\ "exception" \in DOMAIN rec

\* The arguments of the get_recommendation call that just ended.
ArgCrop == call.args[1]

ArgSoil == call.args[2]

ArgFarm == call.args[3]

ArgBudget == call.args[4]

\* The name matches a stored row, compared without regard to case.
CropKnown(name) ==
    \E i \in 1..Len(SampleCrops) : Lower(SampleCrops[i].crop_name) = Lower(name)

SoilKnown(name) ==
    \E i \in 1..Len(SampleSoils) : Lower(SampleSoils[i].soil_type) = Lower(name)

InRange(score) == FLe(FInt(0), score) /\ FLe(score, FInt(100))

\* C1: every score that score_fertilizer returns, and the score of every
\* candidate get_recommendation builds, is in [0, 100].
C1_ScoreInRange ==
    /\ (Scored /\ "value" \in DOMAIN rec) => InRange(rec.value)
    /\ Recommended =>
          \A i \in 1..Len(frame.ranked) : InRange(frame.ranked[i].score)

\* C2: get_recommendation with a crop name or a soil type that has no
\* catalog match returns a result holding the not-found error and nothing
\* else, and it ends before the fertilizers are listed or anything is scored.
C2_NotFoundOnlyError ==
    (Recommended /\ (~CropKnown(ArgCrop) \/ ~SoilKnown(ArgSoil))) =>
        /\ DOMAIN rec = {"error"}
        /\ rec.error = IF ~CropKnown(ArgCrop)
                       THEN <<"Crop", ArgCrop, "not found">>
                       ELSE <<"Soil", ArgSoil, "not found">>
        /\ \A i \in 1..Len(frame.db_calls) : frame.db_calls[i] # "get_all_fertilizers"
        /\ frame.n_scored = 0
        /\ frame.ranked = <<>>

\* C2's case: a stored crop with a soil type that is not stored, over a
\* table that has fertilizers to list.
C2_Witness ==
    /\ Recommended
    /\ CropKnown(ArgCrop)
    /\ ~SoilKnown(ArgSoil)
    /\ fertilizers # <<>>
    /\ "error" \in DOMAIN rec

\* C3: score_fertilizer for a crop whose three requirements sum to zero
\* does not raise: it returns a score.
C3_ZeroCropScored ==
    (Scored /\ CropTotal(call.args[1]) = 0) => "value" \in DOMAIN rec

\* C4: get_recommendation with a stored crop, a stored soil, a table that
\* is not empty and a farm size of zero or less does not raise: it returns
\* a recommendation.
C4_NonPositiveFarmCompletes ==
    (Recommended /\ CropKnown(ArgCrop) /\ SoilKnown(ArgSoil)
        /\ fertilizers # <<>> /\ ArgFarm <= 0) =>
        (~Failed /\ Succeeded)

\* The primary recommendation costs at most the budget b (in KES).
PrimaryWithin(b) == rec.primary_recommendation.total_cost <= 100 * b

\* C5 as claimed: without a budget within_budget is true and budget_total
\* is echoed as absent; with one, within_budget is true exactly when the
\* primary recommendation costs at most the budget.
C5_WithinBudgetAsClaimed ==
    Succeeded =>
        /\ ArgBudget = None => (rec.within_budget /\ rec.budget_total = None)
        /\ ArgBudget # None => (rec.within_budget <=> PrimaryWithin(ArgBudget[1]))

\* C5 as amended: with no budget or a budget of 0 within_budget is true and
\* budget_total is echoed as passed; with a budget other than 0,
\* within_budget is true exactly when the primary recommendation costs at
\* most the budget.
C5_WithinBudget ==
    Succeeded =>
        /\ rec.budget_total = ArgBudget
        /\ (ArgBudget = None \/ ArgBudget = Some(0)) => rec.within_budget
        /\ (ArgBudget # None /\ ArgBudget # Some(0)) =>
              (rec.within_budget <=> PrimaryWithin(ArgBudget[1]))

\* C5's case: a budget that exactly one product's cost equals, met by the
\* primary recommendation.
C5_Witness ==
    /\ Succeeded
    /\ ArgBudget # None
    /\ rec.primary_recommendation.total_cost = 100 * ArgBudget[1]
    /\ rec.within_budget

\* No candidate of the call costs at most the budget b (in KES).
NoneAffordable(b) ==
    \A i \in 1..Len(frame.ranked) : frame.ranked[i].total_cost > 100 * b

\* The primary recommendation's cost is the least of all candidates' costs.
PrimaryCheapest ==
    \A i \in 1..Len(frame.ranked) :
        rec.primary_recommendation.total_cost <= frame.ranked[i].total_cost

\* C6 as claimed: with a budget that no candidate's cost is within, the
\* primary recommendation is a candidate of least total cost.
C6_FallbackCheapestAsClaimed ==
    (Succeeded /\ ArgBudget # None /\ NoneAffordable(ArgBudget[1])) =>
        PrimaryCheapest

\* C6 as amended: with a budget other than 0 that no candidate's cost is
\* within, the primary recommendation is a candidate of least total cost.
C6_FallbackCheapest ==
    (Succeeded /\ ArgBudget # None /\ ArgBudget # Some(0)
        /\ NoneAffordable(ArgBudget[1])) =>
        /\ PrimaryCheapest
        /\ \E i \in 1..Len(frame.ranked) :
              /\ frame.ranked[i].fertilizer.product_name
                    = rec.primary_recommendation.fertilizer_name
              /\ frame.ranked[i].total_cost = rec.primary_recommendation.total_cost

\* C6's case: nothing is affordable and the cheapest candidate, which is
\* recommended, is not the one with the best score.
C6_Witness ==
    /\ Succeeded
    /\ ArgBudget # None /\ ArgBudget # Some(0)
    /\ NoneAffordable(ArgBudget[1])
    /\ Len(frame.ranked) > 1
    /\ frame.ranked[1].fertilizer.product_name
          # rec.primary_recommendation.fertilizer_name

\* The numbers get_recommendation is given as budget_total.
BudgetValues == { b[1] : b \in Budgets \ { None } }

\* How many of the call's candidates the filter of lines 108-110 keeps when
\* the budget is b. A candidate's total cost does not depend on the budget,
\* so these are the candidates a call with budget b filters.
Kept(b) == Len(BudgetFilter(frame.ranked, Some(b)))

\* C7 as claimed: for the crop, table and farm size of a call with budget
\* b2, and every budget b1 <= b2, the filter keeps at least as many
\* candidates with b2 as with b1.
C7_FilterMonotoneAsClaimed ==
    (Succeeded /\ ArgBudget # None) =>
        \A b1 \in BudgetValues :
            b1 <= ArgBudget[1] => Kept(b1) <= Len(frame.filtered)

\* C7 as amended: the same for every budget b1 <= b2 other than 0 (a budget
\* of 0 is not filtered on, and keeps every candidate).
C7_FilterMonotone ==
    (Succeeded /\ ArgBudget # None) =>
        /\ Len(frame.filtered) = Kept(ArgBudget[1])
        /\ \A b1 \in BudgetValues :
              (b1 <= ArgBudget[1] /\ b1 # 0) => Kept(b1) <= Len(frame.filtered)

\* C7's case: a call whose budget keeps some candidates and drops others,
\* while a larger budget keeps more.
C7_Witness ==
    /\ Succeeded
    /\ ArgBudget # None /\ ArgBudget # Some(0)
    /\ 0 < Len(frame.filtered)
    /\ \E b2 \in BudgetValues :
          ArgBudget[1] < b2 /\ Len(frame.filtered) < Kept(b2)

\* The three cheapest candidates, cheapest first.
ThreeCheapest == Slice(SortByCost(frame.ranked), 0, 3)

\* The working set: the candidates the budget filter kept or, when it kept
\* none, the three cheapest.
WorkingSet == IF frame.filtered # <<>> THEN frame.filtered ELSE ThreeCheapest

\* Elements 2 to 4 of a list, as the result shows them.
Second2Fourth(seq) ==
    List([i \in 1..(IF Len(seq) > 4 THEN 3 ELSE IF Len(seq) > 1 THEN Len(seq) - 1 ELSE 0)
            |-> Alternative(seq[i + 1])])

\* C8: a result has at most three alternatives; they are elements 2 to 4
\* of the working set when it has two elements or more, and otherwise
\* elements 2 to 4 of the score-sorted list of all candidates; and there
\* are none only when the table has at most one fertilizer.
C8_Alternatives ==
    Succeeded =>
        /\ Len(rec.alternatives) <= 3
        /\ rec.alternatives =
              IF Len(WorkingSet) >= 2
              THEN Second2Fourth(WorkingSet)
              ELSE Second2Fourth(frame.ranked)
        /\ rec.alternatives = <<>> => Len(fertilizers) <= 1

\* C8's case: the budget filter keeps exactly one of several candidates,
\* so the alternatives come from the full score-sorted list.
C8_Witness ==
    /\ Succeeded
    /\ Len(frame.filtered) = 1
    /\ Len(fertilizers) > 1
    /\ rec.alternatives # <<>>

\* The sample row of crop Maize (N 120, P 60, K 60).
MaizeCrop == SampleCrops[1]

\* min(npk_penalty, 60): what the nutrient-ratio term takes from the score.
RatioPenalty(crop, fert) == FMin(npk_penalty(crop, fert), FInt(60))

\* The cost in KES of a fertilizer at its dosage for 2 acres.
CostAt2Acres(fert) ==
    get_fertilizer_rate(StandardRates, fert.product_name, 2) * fert.price_per_kg

\* The call of the scenario, over the sample table of 8 fertilizers.
MaizeScenario ==
    /\ Recommended
    /\ call.args = <<Maize, Loam, 2, Some(10000)>>
    /\ fertilizers = SampleFertilizers

\* C9: for Maize, Loam, 2 acres, a budget of 10000 and the sample table,
\* the primary recommendation is a fertilizer that costs at most 10000 at
\* the 2-acre dosage and whose nutrient-ratio penalty is the least among
\* the fertilizers that do.
C9_MaizeScenario ==
    MaizeScenario =>
        /\ Succeeded
        /\ \E i \in 1..Len(SampleFertilizers) :
              LET top == SampleFertilizers[i]
              IN  /\ top.product_name = rec.primary_recommendation.fertilizer_name
                  /\ CostAt2Acres(top) <= 10000
                  /\ \A j \in 1..Len(SampleFertilizers) :
                        CostAt2Acres(SampleFertilizers[j]) <= 10000 =>
                            FLe(RatioPenalty(MaizeCrop, top),
                                RatioPenalty(MaizeCrop, SampleFertilizers[j]))

\* C9's case: the scenario's call has returned, some fertilizer costs more
\* than the budget and one within it has a larger penalty than the primary.
C9_Witness ==
    /\ MaizeScenario
    /\ Succeeded
    /\ Len(frame.filtered) < Len(frame.ranked)
    /\ \E i \in 1..Len(frame.filtered) :
          FLt(RatioPenalty(MaizeCrop, frame.filtered[1].fertilizer),
              RatioPenalty(MaizeCrop, frame.filtered[i].fertilizer))

\* The keyword table of the claim, in its order, with the per-acre rates.
KeywordOrder ==
    << <<"D", "A", "P">>, <<"C", "A", "N">>, <<"N", "P", "K">>,
       <<"U", "r", "e", "a">>, <<"T", "S", "P">>,
       <<"M", "a", "n", "u", "r", "e">>, <<"C", "o", "m", "p", "o", "s", "t">> >>

KeywordRate == <<50, 50, 50, 50, 50, 2000, 2000>>

\* The keyword occurs in the name, letters compared without regard to case.
Occurs(keyword, name) ==
    \E i \in 0..(Len(name) - Len(keyword)) :
        \A j \in 1..Len(keyword) : UpperChar(name[i + j]) = UpperChar(keyword[j])

\* The rate of the first keyword from place k on that occurs, else 50.
RECURSIVE FirstKeywordRate(_, _)
FirstKeywordRate(name, k) ==
    IF k > Len(KeywordOrder) THEN 50
    ELSE IF Occurs(KeywordOrder[k], name) THEN KeywordRate[k]
    ELSE FirstKeywordRate(name, k + 1)

\* C10: get_fertilizer_rate returns the farm size times the per-acre rate
\* of the first keyword, in the order DAP, CAN, NPK, Urea, TSP, Manure,
\* Compost, that occurs in the product name whatever the case of its
\* letters, and the farm size times 50 when none occurs.
C10_FirstKeywordRate ==
    /\ Len(standard_rates) = Len(KeywordOrder)
    /\ \A k \in 1..Len(KeywordOrder) :
          /\ standard_rates[k].key = KeywordOrder[k]
          /\ standard_rates[k].rate = KeywordRate[k]
    /\ Rated => rec.value = FirstKeywordRate(call.args[1], 1) * call.args[2]

\* C10's case: a name holding a 50 kg keyword and Manure, rated at 50.
C10_Witness ==
    /\ Rated
    /\ Occurs(<<"D", "A", "P">>, call.args[1])
    /\ Occurs(<<"M", "a", "n", "u", "r", "e">>, call.args[1])
    /\ call.args[2] > 0
    /\ rec.value = 50 * call.args[2]

\* The crop requires the three nutrients in the proportions in which the
\* fertilizer, of non-zero total content, holds them.
SameRatios(crop, fertilizer) ==
    /\ CropTotal(crop) # 0
    /\ TotalNpk(fertilizer) # 0
    /\ crop.nitrogen_requirement * TotalNpk(fertilizer)
          = fertilizer.nitrogen_content * CropTotal(crop)
    /\ crop.phosphorus_requirement * TotalNpk(fertilizer)
          = fertilizer.phosphorus_content * CropTotal(crop)
    /\ crop.potassium_requirement * TotalNpk(fertilizer)
          = fertilizer.potassium_content * CropTotal(crop)

\* C11: score_fertilizer for a fertilizer of non-zero total NPK content and
\* a crop whose requirement ratios equal the fertilizer's normalized ratios
\* computes ratio_diff = 0 and leaves the score at 100 after the
\* nutrient-ratio term; with no budget it returns 100.
C11_MatchedRatiosNoPenalty ==
    (Scored /\ SameRatios(call.args[1], call.args[2])) =>
        /\ frame.ratio_diff = Some(FInt(0))
        /\ frame.score_steps[2] = FInt(100)
        /\ call.args[3] = None => rec.value = FInt(100)

\* C11's case: a crop whose requirements are not the fertilizer's contents
\* but are in their proportions, both with two nutrients or more, scored.
C11_Witness ==
    /\ Scored
    /\ SameRatios(call.args[1], call.args[2])
    /\ call.args[1].nitrogen_requirement # call.args[2].nitrogen_content
    /\ call.args[1].nitrogen_requirement # 0
    /\ call.args[1].phosphorus_requirement # 0
    /\ frame.ratio_diff = Some(FInt(0))

IsPrimary(i) ==
    /\ frame.ranked[i].fertilizer.product_name
          = rec.primary_recommendation.fertilizer_name
    /\ frame.ranked[i].total_cost = rec.primary_recommendation.total_cost

\* C13: when a budget is given and some candidate's total cost is within
\* it, the primary recommendation is a candidate whose total cost is within
\* the budget and whose score is at least that of every candidate whose
\* total cost is within the budget.
C13_PrimaryBestAffordable ==
    (Succeeded /\ ArgBudget # None /\ ~NoneAffordable(ArgBudget[1])) =>
        \E i \in 1..Len(frame.ranked) :
            /\ IsPrimary(i)
            /\ frame.ranked[i].total_cost <= 100 * ArgBudget[1]
            /\ \A j \in 1..Len(frame.ranked) :
                  frame.ranked[j].total_cost <= 100 * ArgBudget[1] =>
                      FLe(frame.ranked[j].score, frame.ranked[i].score)

\* C13's case: the best-scored candidate costs more than the budget, two
\* others of different scores cost less, and one of them is recommended.
C13_Witness ==
    /\ Succeeded
    /\ ArgBudget # None
    /\ frame.ranked[1].total_cost > 100 * ArgBudget[1]
    /\ Len(frame.filtered) >= 2
    /\ FLt(frame.filtered[2].score, frame.filtered[1].score)
    /\ IsPrimary(CHOOSE i \in 1..Len(frame.ranked) : frame.ranked[i] = frame.filtered[1])

\* The place of a fertilizer in the catalog's listing.
ListedAt(fertilizer) ==
    CHOOSE i \in 1..Len(fertilizers) : get_all_fertilizers(fertilizers)[i] = fertilizer

\* C14: after the sort of line 105 the candidates, one for each fertilizer
\* listed, are in non-increasing order of score, and of two candidates with
\* the same score the one the catalog listed first comes first; so no
\* candidate the budget filter kept that has the primary recommendation's
\* score was listed before the primary.
C14_StableScoreSort ==
    Succeeded =>
        /\ Len(frame.ranked) = Len(fertilizers)
        /\ \A i, j \in 1..Len(frame.ranked) :
              i < j =>
                  /\ FLe(frame.ranked[j].score, frame.ranked[i].score)
                  /\ frame.ranked[i].score = frame.ranked[j].score =>
                        ListedAt(frame.ranked[i].fertilizer)
                            < ListedAt(frame.ranked[j].fertilizer)
        /\ frame.filtered # <<>> =>
              /\ rec.primary_recommendation.fertilizer_name
                    = frame.filtered[1].fertilizer.product_name
              /\ \A k \in 2..Len(frame.filtered) :
                    frame.filtered[k].score = frame.filtered[1].score =>
                        ListedAt(frame.filtered[1].fertilizer)
                            < ListedAt(frame.filtered[k].fertilizer)

\* C14's case: the two best-scored candidates within a budget have the same
\* score, below that of a candidate the budget rules out, and the one
\* listed first is recommended.
C14_Witness ==
    /\ Succeeded
    /\ Truthy(ArgBudget)
    /\ Len(frame.filtered) >= 2
    /\ Len(frame.filtered) < Len(frame.ranked)
    /\ frame.filtered[1].score = frame.filtered[2].score
    /\ rec.primary_recommendation.fertilizer_name
          = frame.filtered[1].fertilizer.product_name
    /\ ListedAt(frame.filtered[1].fertilizer) < ListedAt(frame.filtered[2].fertilizer)

\* What the budget term took from the score in the score_fertilizer call
\* that just ended: the score after line 54 less the score after line 61.
BudgetTermTook == FSub(frame.score_steps[2], frame.score_steps[3])

\* The crop record of the get_recommendation call that just ended.
ArgCropRecord == get_crop_by_name(ArgCrop)[1]

\* C15: for every budget_per_kg passed to score_fertilizer the budget term
\* takes between 0 and 40 from the score, it takes 0 when the price per kg
\* is at most budget_per_kg, and the score returned is at most the score of
\* the same crop and fertilizer with no budget; and when get_recommendation
\* derives a budget_per_kg, no candidate's score is above the score of its
\* fertilizer with no budget.
C15_BudgetTermOneSided ==
    /\ (Scored /\ "value" \in DOMAIN rec /\ call.args[3] # None) =>
          /\ FLe(FInt(0), BudgetTermTook)
          /\ FLe(BudgetTermTook, FInt(40))
          /\ FLe(FInt(call.args[2].price_per_kg), call.args[3][1]) =>
                BudgetTermTook = FInt(0)
          /\ FLe(rec.value, score_fertilizer(call.args[1], call.args[2], None))
    /\ (Succeeded /\ frame.budget_per_kg # None) =>
          \A i \in 1..Len(frame.ranked) :
              FLe(frame.ranked[i].score,
                  score_fertilizer(ArgCropRecord, frame.ranked[i].fertilizer, None))

\* C17: in a result of get_recommendation (the tables modelled hold no two
\* fertilizers of the same name) no alternative is the fertilizer of the
\* primary recommendation.
C17_PrimaryNotAlternative ==
    Succeeded =>
        \A i \in 1..Len(rec.alternatives) :
            rec.alternatives[i].fertilizer_name
                # rec.primary_recommendation.fertilizer_name

\* The call that just ended was a chat call.
Chatted == pc = "done" /\ call.op = "chat"

\* C16: when the chatbot's reply says the primary recommendation exceeds
\* the budget and names a CHEAPER OPTION, that alternative's total cost is
\* below the primary recommendation's total cost.
C16_CheaperOptionIsCheaper ==
    (Chatted /\ "cheaper_option" \in DOMAIN rec /\ rec.cheaper_option # None) =>
        /\ rec.budget_line = "exceeds"
        /\ rec.cheaper_option[1].total_cost < rec.best_choice.total_cost

Fields == { "crop", "soil", "acres", "budget" }

\* C18: a chat call empties no field of user_data that was collected when
\* it began; a chat call that begins with crop, soil and acres collected
\* returns the engine's recommendation and not the language model's reply;
\* and after reset all four fields are empty and
\* check_ready_for_recommendation is false.
C18_ReadyStaysReady ==
    /\ Chatted =>
          \A f \in Fields : call.held[f] # None => user_data[f] # None
    /\ (Chatted /\ check_ready_for_recommendation(call.held)) =>
          /\ "exception" \notin DOMAIN rec
          /\ rec.via = "engine"
          /\ "best_choice" \in DOMAIN rec
    /\ (pc = "done" /\ call.op = "reset") =>
          /\ \A f \in Fields : user_data[f] = None
          /\ ~check_ready_for_recommendation(user_data)

====
